---- MODULE Spec2Model ----
(***************************************************************************)
(* Host-side pwm-control package of rust-copter: the IMU reading stream    *)
(* (src/host/pypwm_control/imu_stream.py) and the motor command encoder    *)
(* (src/host/pypwm_control/pwm_control.py), each driving a pyserial        *)
(* device.  The serial device and the motion_sensor decoder are the        *)
(* environment: their results are chosen nondeterministically.             *)
(***************************************************************************)
EXTENDS Integers, Sequences, FiniteSets, TLC

(***************************************************************************)
(* Program constants and model bounds                                      *)
(***************************************************************************)
\* imu_stream.py:39
MAX_RETRIES == 1000

\* longest list of readings one frame decodes to
MaxFrameLen == 2
\* frames read by one generator after priming
MaxFrames == 2
\* readings decoded by one generator after priming
MaxReadings == 3
\* what follows the priming loop (the steady-state loop, the consumer's calls
\* after a failure, a new generator) is explored after a priming of at most
\* this many reads, and after one of MAX_RETRIES reads; the priming loop
\* itself is explored at every length
MaxEarlySync == 1
\* serial.write calls
MaxWrites == 3

(***************************************************************************)
(* Values                                                                  *)
(***************************************************************************)
\* imu_stream.py:11-16
ImuReading == {"Acc", "Gyro", "Mag"}

SeqsUpTo(S, n) == UNION {[1..k -> S] : k \in 0..n}

\* a frame as the decoder sees it: rejected, or a list of typed readings
Frames ==
    {[ok |-> FALSE, readings |-> <<>>]}
        \cup {[ok |-> TRUE, readings |-> r] : r \in SeqsUpTo(ImuReading, MaxFrameLen)}

\* motion_sensor.convert_readings: the readings, or ValueError
ConvertRaises(frame) == ~frame.ok
convert_readings(frame) == frame.readings

\* how a successful decoding is recorded
Decoded(rs) == IF rs = <<>> THEN "empty" ELSE "decoded"

\* a throttle percentage as Python holds it: an int, or a float with one
\* decimal; tenths is ten times its value
Pct(isFloat, tenths) == [float |-> isFloat, tenths |-> tenths]
NoPct == Pct(FALSE, 0)

\* the record of a filter call: the method, its arguments, the filter it
\* found, and what it raised
FilterCall(op, reading_types, before, exc) ==
    [op |-> op, reading_types |-> reading_types, before |-> before, raised |-> exc]

NoCall == [last |-> FilterCall("none", <<>>, {}, "None"),
           prior |-> FilterCall("none", <<>>, {}, "None")]

VARIABLES
    pc,                  \* position of the stream() generator
    retries,             \* _prime_readings: retries
    readings,            \* stream(): readings of the current frame
    idx,                 \* stream(): position of the for loop in readings
    measurement_filter,  \* ImuStream._measurement_filter
    raised,              \* exception the last method call left to its caller
    streamError,         \* exception that ended the generator
    clears,              \* reset_input_buffer calls of this generator
    reads,               \* read_until calls of this generator
    lastIo,              \* last call this generator made on the device
    outcome,             \* how that call, and the decoding of what it read, ended
    frames,              \* what the frames read after priming decoded to
    primeReads,          \* reads when _prime_readings returned (0: not yet)
    considered,          \* readings the for loop reached, with the filter's verdict
    yielded,             \* readings handed to the consumer by this generator
    scanning,            \* the generator is inside serial.read_until
    lastCall,            \* the last enable_readings / disable_readings call on record
    written,             \* byte strings passed to serial.write, in call order
    motor,               \* the caller's variable holding what motor() returned
    killed,              \* kill() has been called on the PwmControl
    lastCmd              \* the last PwmControl / Motor call and the state it saw

vars == <<pc, retries, readings, idx, measurement_filter, raised, streamError,
          clears, reads, lastIo, outcome, frames, primeReads, considered, yielded,
          scanning, lastCall, written, motor, killed, lastCmd>>

pwmVars == <<written, motor, killed, lastCmd>>

imuVars == <<pc, retries, readings, idx, measurement_filter, streamError,
             clears, reads, lastIo, outcome, frames, primeReads, considered, yielded,
             scanning, lastCall>>

genVars == <<pc, retries, readings, idx, streamError, clears, reads, lastIo,
             outcome, frames, primeReads, considered, yielded, scanning>>

\* the consumer holds control: no generator frame is executing
Suspended == pc \in {"Unstarted", "Yielded", "Failed"}
Priming == pc \in {"PrimeLoop", "PrimeRead"}
Streaming == pc \in {"Read", "Consider", "Yielded"}

\* imu_stream.py:22-36
Init ==
    /\ pc = "Unstarted"
    /\ retries = 0
    /\ readings = <<>>
    /\ idx = 0
    /\ measurement_filter = {"Acc", "Gyro", "Mag"}
    /\ raised = "None"
    /\ streamError = "None"
    /\ clears = 0
    /\ reads = 0
    /\ lastIo = "none"
    /\ outcome = "none"
    /\ frames = <<>>
    /\ primeReads = 0
    /\ considered = <<>>
    /\ yielded = <<>>
    /\ scanning = FALSE
    /\ lastCall = NoCall
    /\ written = <<>>
    /\ motor = "Unset"
    /\ killed = FALSE
    /\ lastCmd = [op |-> "none", motor_id |-> "", pct |-> NoPct,
                  before |-> <<>>, killed |-> FALSE]

\* the priming lengths after which the exploration goes on
Explored ==
    LET n == IF primeReads > 0 THEN primeReads ELSE reads
    IN  n <= MaxEarlySync \/ n >= MAX_RETRIES

(***************************************************************************)
(* ImuStream.stream and ImuStream._prime_readings                          *)
(***************************************************************************)
\* the generator ends with an exception
Raise(e) ==
    /\ pc' = "Failed"
    /\ streamError' = e

\* a restart that goes straight to the steady-state loop
StartStream_SkipPriming ==
    /\ pc \in {"Unstarted", "Failed"}
    /\ Explored
    /\ pc' = "Read"
    /\ retries' = 0
    /\ raised' = "None"
    /\ streamError' = "None"
    /\ readings' = <<>>
    /\ idx' = 0
    /\ clears' = 0
    /\ reads' = 0
    /\ lastIo' = "none"
    /\ outcome' = "none"
    /\ frames' = <<>>
    /\ primeReads' = 0
    /\ considered' = <<>>
    /\ yielded' = <<>>
    /\ UNCHANGED measurement_filter
    /\ scanning' = FALSE
    /\ UNCHANGED <<pwmVars, lastCall>>

\* first next() on a new stream() generator: enters _prime_readings
StartStream ==
    /\ pc \in {"Unstarted", "Failed"}
    /\ Explored
    /\ pc' = "PrimeLoop"
    /\ retries' = 0
    /\ raised' = "None"
    /\ streamError' = "None"
    /\ readings' = <<>>
    /\ idx' = 0
    /\ clears' = 0
    /\ reads' = 0
    /\ lastIo' = "none"
    /\ outcome' = "none"
    /\ frames' = <<>>
    /\ primeReads' = 0
    /\ considered' = <<>>
    /\ yielded' = <<>>
    /\ UNCHANGED measurement_filter
    /\ scanning' = FALSE
    /\ UNCHANGED <<pwmVars, lastCall>>

\* PrimeClear with the loop test off by one (retries <= MAX_RETRIES)
PrimeClear_OffByOne ==
    /\ pc = "PrimeLoop"
    /\ retries <= MAX_RETRIES
    /\ clears' = clears + 1
    /\ lastIo' = "clear"
    /\ \/ /\ outcome' = "ok"
          /\ pc' = "PrimeRead"
          /\ UNCHANGED streamError
       \/ /\ outcome' = "error"
          /\ Raise("SerialException")
    /\ UNCHANGED <<retries, readings, idx, measurement_filter, raised, reads,
                   frames, primeReads, considered, yielded>>
    /\ UNCHANGED <<pwmVars, lastCall, scanning>>

\* PrimeClear with the device's error caught and counted as a retry
PrimeClear_RetryOnError ==
    /\ pc = "PrimeLoop"
    /\ retries < MAX_RETRIES
    /\ clears' = clears + 1
    /\ lastIo' = "clear"
    /\ \/ /\ outcome' = "ok"
          /\ pc' = "PrimeRead"
          /\ UNCHANGED retries
       \/ /\ outcome' = "error"
          /\ pc' = "PrimeLoop"
          /\ retries' = retries + 1
    /\ UNCHANGED <<readings, idx, measurement_filter, raised, streamError,
                   reads, frames, primeReads, considered, yielded>>
    /\ UNCHANGED <<pwmVars, lastCall, scanning>>

\* imu_stream.py:42-43: loop test, then reset_input_buffer
PrimeClear ==
    /\ pc = "PrimeLoop"
    /\ retries < MAX_RETRIES
    /\ clears' = clears + 1
    /\ lastIo' = "clear"
    /\ \/ /\ outcome' = "ok"
          /\ pc' = "PrimeRead"
          /\ UNCHANGED streamError
       \/ /\ outcome' = "error"
          /\ Raise("SerialException")
    /\ UNCHANGED <<retries, readings, idx, measurement_filter, raised, reads,
                   frames, primeReads, considered, yielded>>
    /\ UNCHANGED <<pwmVars, lastCall, scanning>>

\* imu_stream.py:44 and 86: the generator calls serial.read_until, which
\* blocks until the delimiter arrives or the device fails
EnterRead ==
    /\ ~scanning
    /\ \/ pc = "PrimeRead"
       \/ pc = "Read" /\ Explored /\ reads - primeReads < MaxFrames
    /\ scanning' = TRUE
    /\ UNCHANGED <<pc, retries, readings, idx, measurement_filter, raised,
                   streamError, clears, reads, lastIo, outcome, frames,
                   primeReads, considered, yielded>>
    /\ UNCHANGED <<pwmVars, lastCall>>

\* imu_stream.py:42,51: the loop ran out
PrimeTimeout ==
    /\ pc = "PrimeLoop"
    /\ ~(retries < MAX_RETRIES)
    /\ Raise("TimeoutError")
    /\ UNCHANGED <<retries, readings, idx, measurement_filter, raised, clears,
                   reads, lastIo, outcome, frames, primeReads, considered,
                   yielded>>
    /\ UNCHANGED <<pwmVars, lastCall, scanning>>

\* PrimeRead with the input buffer cleared once, before the loop, so that a
\* retry goes straight to the next read
PrimeRead_NoClearOnRetry ==
    /\ pc = "PrimeRead"
    /\ scanning
    /\ scanning' = FALSE
    /\ reads' = reads + 1
    /\ lastIo' = "read"
    /\ \/ /\ outcome' = "error"
          /\ Raise("SerialException")
          /\ UNCHANGED <<retries, primeReads>>
       \/ \E buffer \in Frames :
            IF ConvertRaises(buffer)
            THEN /\ outcome' = "rejected"
                 /\ retries' = retries + 1
                 /\ pc' = IF retries' < MAX_RETRIES THEN "PrimeRead" ELSE "PrimeLoop"
                 /\ UNCHANGED <<streamError, primeReads>>
            ELSE /\ outcome' = Decoded(convert_readings(buffer))
                 /\ pc' = "Read"
                 /\ primeReads' = reads'
                 /\ UNCHANGED <<retries, streamError>>
    /\ UNCHANGED <<readings, idx, measurement_filter, raised, clears, frames,
                   considered, yielded>>
    /\ UNCHANGED <<pwmVars, lastCall>>

\* PrimeRead handing the readings of the accepted frame to the for loop
PrimeRead_KeepsReadings ==
    /\ pc = "PrimeRead"
    /\ scanning
    /\ scanning' = FALSE
    /\ reads' = reads + 1
    /\ lastIo' = "read"
    /\ \/ /\ outcome' = "error"
          /\ Raise("SerialException")
          /\ UNCHANGED <<retries, primeReads, readings, idx>>
       \/ \E buffer \in Frames :
            IF ConvertRaises(buffer)
            THEN /\ outcome' = "rejected"
                 /\ retries' = retries + 1
                 /\ pc' = "PrimeLoop"
                 /\ UNCHANGED <<streamError, primeReads, readings, idx>>
            ELSE /\ outcome' = Decoded(convert_readings(buffer))
                 /\ readings' = convert_readings(buffer)
                 /\ IF convert_readings(buffer) # <<>>
                    THEN pc' = "Consider" /\ idx' = 1
                    ELSE pc' = "Read" /\ idx' = 0
                 /\ primeReads' = reads'
                 /\ UNCHANGED <<retries, streamError>>
    /\ UNCHANGED <<measurement_filter, raised, clears, frames,
                   considered, yielded>>
    /\ UNCHANGED <<pwmVars, lastCall>>

\* imu_stream.py:44-49: read one frame and try to decode it
PrimeRead ==
    /\ pc = "PrimeRead"
    /\ scanning
    /\ scanning' = FALSE
    /\ reads' = reads + 1
    /\ lastIo' = "read"
    /\ \/ /\ outcome' = "error"
          /\ Raise("SerialException")
          /\ UNCHANGED <<retries, primeReads>>
       \/ \E buffer \in Frames :
            IF ConvertRaises(buffer)
            THEN /\ outcome' = "rejected"
                 /\ retries' = retries + 1
                 /\ pc' = "PrimeLoop"
                 /\ UNCHANGED <<streamError, primeReads>>
            ELSE /\ outcome' = Decoded(convert_readings(buffer))
                 /\ pc' = "Read"
                 /\ primeReads' = reads'
                 /\ UNCHANGED <<retries, streamError>>
    /\ UNCHANGED <<readings, idx, measurement_filter, raised, clears, frames,
                   considered, yielded>>
    /\ UNCHANGED <<pwmVars, lastCall>>

\* ForLoop with an empty list of readings ending the generator
ForLoop_EmptyStops(rs, i) ==
    IF rs = <<>>
    THEN /\ pc' = "Failed"
         /\ readings' = <<>>
         /\ idx' = 0
    ELSE IF i <= Len(rs)
         THEN /\ pc' = "Consider"
              /\ readings' = rs
              /\ idx' = i
         ELSE /\ pc' = "Read"
              /\ readings' = <<>>
              /\ idx' = 0

\* imu_stream.py:88: where the for loop goes from position i of list rs
ForLoop(rs, i) ==
    IF i <= Len(rs)
    THEN /\ pc' = "Consider"
         /\ readings' = rs
         /\ idx' = i
    ELSE /\ pc' = "Read"
         /\ readings' = <<>>
         /\ idx' = 0

\* StreamRead with a rejected frame sending the generator back to priming
StreamRead_Resync ==
    /\ pc = "Read"
    /\ Explored
    /\ reads - primeReads < MaxFrames
    /\ scanning
    /\ scanning' = FALSE
    /\ reads' = reads + 1
    /\ lastIo' = "read"
    /\ \/ /\ outcome' = "error"
          /\ Raise("SerialException")
          /\ UNCHANGED <<readings, idx, frames>>
       \/ \E buffer \in Frames :
            /\ Len(considered) + Len(buffer.readings) <= MaxReadings
            /\ IF ConvertRaises(buffer)
               THEN /\ outcome' = "rejected"
                    /\ pc' = "PrimeLoop"
                    /\ UNCHANGED <<readings, idx, frames, streamError>>
               ELSE /\ outcome' = Decoded(convert_readings(buffer))
                    /\ frames' = Append(frames, convert_readings(buffer))
                    /\ ForLoop(convert_readings(buffer), 1)
                    /\ UNCHANGED streamError
    /\ UNCHANGED <<retries, measurement_filter, raised, clears, primeReads,
                   considered, yielded>>
    /\ UNCHANGED <<pwmVars, lastCall>>

\* imu_stream.py:86-88: read one frame, decode it, enter the for loop
StreamRead ==
    /\ pc = "Read"
    /\ Explored
    /\ reads - primeReads < MaxFrames
    /\ scanning
    /\ scanning' = FALSE
    /\ reads' = reads + 1
    /\ lastIo' = "read"
    /\ \/ /\ outcome' = "error"
          /\ Raise("SerialException")
          /\ UNCHANGED <<readings, idx, frames>>
       \/ \E buffer \in Frames :
            /\ Len(considered) + Len(buffer.readings) <= MaxReadings
            /\ IF ConvertRaises(buffer)
               THEN /\ outcome' = "rejected"
                    /\ Raise("ValueError")
                    /\ UNCHANGED <<readings, idx, frames>>
               ELSE /\ outcome' = Decoded(convert_readings(buffer))
                    /\ frames' = Append(frames, convert_readings(buffer))
                    /\ ForLoop(convert_readings(buffer), 1)
                    /\ UNCHANGED streamError
    /\ UNCHANGED <<retries, measurement_filter, raised, clears, primeReads,
                   considered, yielded>>
    /\ UNCHANGED <<pwmVars, lastCall>>

\* Passes with the filter ignored
Passes_All(reading, filter) == TRUE

\* imu_stream.py:89
Passes(reading, filter) == reading \in filter

\* imu_stream.py:88-90: one iteration of the for loop
Consider ==
    /\ pc = "Consider"
    /\ LET reading == readings[idx] IN
       /\ considered' = Append(considered,
                               [kind |-> reading,
                                enabled |-> reading \in measurement_filter])
       /\ IF Passes(reading, measurement_filter)
          THEN /\ pc' = "Yielded"
               /\ yielded' = Append(yielded, reading)
               /\ UNCHANGED <<readings, idx>>
          ELSE /\ ForLoop(readings, idx + 1)
               /\ UNCHANGED yielded
    /\ UNCHANGED <<retries, measurement_filter, raised, streamError, clears,
                   reads, lastIo, outcome, frames, primeReads>>
    /\ UNCHANGED <<pwmVars, lastCall, scanning>>

\* a resumption that drops the rest of the decoded frame
Resume_DropsRest ==
    /\ pc = "Yielded"
    /\ ForLoop(<<>>, 1)
    /\ raised' = "None"
    /\ UNCHANGED <<retries, measurement_filter, streamError, clears, reads,
                   lastIo, outcome, frames, primeReads, considered, yielded>>
    /\ UNCHANGED <<pwmVars, lastCall, scanning>>

\* next() on a generator suspended at the yield of imu_stream.py:90
Resume ==
    /\ pc = "Yielded"
    /\ ForLoop(readings, idx + 1)
    /\ raised' = "None"
    /\ UNCHANGED <<retries, measurement_filter, streamError, clears, reads,
                   lastIo, outcome, frames, primeReads, considered, yielded>>
    /\ UNCHANGED <<pwmVars, lastCall, scanning>>

\* next() on a generator that an exception has ended: StopIteration
NextAfterEnd ==
    /\ pc = "Failed"
    /\ Explored
    /\ raised' = "StopIteration"
    /\ UNCHANGED <<measurement_filter, genVars>>
    /\ UNCHANGED <<pwmVars, lastCall>>

(***************************************************************************)
(* ImuStream.enable_readings and ImuStream.disable_readings                *)
(***************************************************************************)
Range(s) == {s[i] : i \in 1..Len(s)}

\* the arguments removed before argument i is reached
Before(reading_types, i) == {reading_types[k] : k \in 1..(i - 1)}

\* set.discard in the place of set.remove
RemoveAll_Discard(filter, reading_types) ==
    [filter |-> filter \ Range(reading_types), raised |-> "None"]

\* a removal that is undone when one argument is missing
RemoveAll_Atomic(filter, reading_types) ==
    IF \E i \in 1..Len(reading_types) :
           reading_types[i] \notin filter \ Before(reading_types, i)
    THEN [filter |-> filter, raised |-> "KeyError"]
    ELSE [filter |-> filter \ Range(reading_types), raised |-> "None"]

\* an assignment in the place of set.add
AddAll_Replace(filter, reading_types) ==
    IF reading_types = <<>> THEN filter ELSE {reading_types[Len(reading_types)]}

RECURSIVE AddAll_Toggle(_, _)
\* an add that removes a type it finds in the set
AddAll_Toggle(filter, reading_types) ==
    IF reading_types = <<>>
    THEN filter
    ELSE LET t == Head(reading_types) IN
         AddAll_Toggle(IF t \in filter THEN filter \ {t} ELSE filter \cup {t},
                       Tail(reading_types))

\* an add that accepts the three motion_sensor types only
AddAll_Validated(filter, reading_types) ==
    filter \cup (Range(reading_types) \cap {"Acc", "Gyro", "Mag"})

RECURSIVE RemoveAll(_, _)
\* imu_stream.py:62-63: set.remove in argument order; KeyError stops the loop
RemoveAll(filter, reading_types) ==
    IF reading_types = <<>>
    THEN [filter |-> filter, raised |-> "None"]
    ELSE IF Head(reading_types) \notin filter
         THEN [filter |-> filter, raised |-> "KeyError"]
         ELSE RemoveAll(filter \ {Head(reading_types)}, Tail(reading_types))

RECURSIVE AddAll(_, _)
\* imu_stream.py:74-75: set.add in argument order
AddAll(filter, reading_types) ==
    IF reading_types = <<>>
    THEN filter
    ELSE AddAll(filter \cup {Head(reading_types)}, Tail(reading_types))

\* imu_stream.py:53-63
disable_readings(reading_types) ==
    /\ Suspended
    /\ LET r == RemoveAll(measurement_filter, reading_types) IN
       /\ measurement_filter' = r.filter
       /\ raised' = r.raised
    /\ UNCHANGED genVars
    /\ UNCHANGED pwmVars

\* imu_stream.py:65-75
enable_readings(reading_types) ==
    /\ Suspended
    /\ measurement_filter' = AddAll(measurement_filter, reading_types)
    /\ raised' = "None"
    /\ UNCHANGED genVars
    /\ UNCHANGED pwmVars

\* the consumer of a stream changes the filter between two next() calls
DisableCall ==
    /\ Explored
    /\ \E t \in ImuReading : disable_readings(<<t>>)
    /\ UNCHANGED lastCall
EnableCall ==
    /\ Explored
    /\ \E t \in ImuReading : enable_readings(<<t>>)
    /\ UNCHANGED lastCall

NextImu ==
    \/ StartStream
    \/ PrimeClear
    \/ PrimeTimeout
    \/ EnterRead
    \/ PrimeRead
    \/ StreamRead
    \/ Consider
    \/ Resume
    \/ NextAfterEnd
    \/ DisableCall
    \/ EnableCall

SpecImu == Init /\ [][NextImu]_vars

(***************************************************************************)
(* The filter methods under every argument list: Python checks no argument *)
(* type, so a caller can pass any hashable object                          *)
(***************************************************************************)
MaxArgs == 2

\* "Other" stands for any hashable object that is not one of the three
\* motion_sensor types
ArgTypes == ImuReading \cup {"Other"}

\* the call before the last one is kept in full when it named one type
Summary(call) ==
    IF Len(call.reading_types) = 1
    THEN call
    ELSE FilterCall(call.op, <<>>, {}, call.raised)

Recorded(op, reading_types) ==
    lastCall' = [last |-> FilterCall(op, reading_types, measurement_filter, raised'),
                 prior |-> Summary(lastCall.last)]

FilterDisable ==
    \E reading_types \in SeqsUpTo(ArgTypes, MaxArgs) :
        /\ disable_readings(reading_types)
        /\ Recorded("disable", reading_types)

FilterEnable ==
    \E reading_types \in SeqsUpTo(ArgTypes, MaxArgs) :
        /\ enable_readings(reading_types)
        /\ Recorded("enable", reading_types)

NextFilter ==
    \/ FilterDisable
    \/ FilterEnable

SpecFilter == Init /\ [][NextFilter]_vars

(***************************************************************************)
(* Properties of the reading stream                                        *)
(***************************************************************************)
RECURSIVE Flatten(_)
Flatten(ss) == IF ss = <<>> THEN <<>> ELSE Head(ss) \o Flatten(Tail(ss))

\* C1: a priming that meets N-1 rejected frames and then an accepted one
\* succeeds after exactly N reads and N clears (N = retries + 1 <=
\* MAX_RETRIES), and every read of the priming loop directly follows a clear.
C1_PrimingSuccessCount ==
    /\ pc = "PrimeRead" => lastIo = "clear" /\ clears = reads + 1
    /\ pc = "PrimeLoop" => clears = reads
    /\ primeReads > 0 =>
         /\ primeReads = retries + 1
         /\ primeReads <= MAX_RETRIES
         /\ reads = primeReads => clears = primeReads /\ pc = "Read"

C1_Witness ==
    /\ pc = "Read"
    /\ retries = 2
    /\ primeReads = 3
    /\ reads = 3
    /\ clears = 3

\* C2: when every frame is rejected the priming ends with TimeoutError after
\* exactly MAX_RETRIES reads: the loop never runs past MAX_RETRIES, and the
\* generator never reaches the steady-state loop nor yields a reading.
C2_PrimingTimeout ==
    /\ Priming => retries <= MAX_RETRIES /\ reads <= MAX_RETRIES
    /\ retries = MAX_RETRIES =>
         /\ pc \in {"PrimeLoop", "Failed"}
         /\ reads = MAX_RETRIES
         /\ clears = MAX_RETRIES
         /\ primeReads = 0
         /\ yielded = <<>>
         /\ pc = "Failed" => streamError = "TimeoutError"
    /\ streamError = "TimeoutError" => pc = "Failed" /\ retries = MAX_RETRIES

C2_Witness ==
    /\ pc = "Failed"
    /\ streamError = "TimeoutError"
    /\ reads = MAX_RETRIES
    /\ primeReads = 0

\* C3: in the steady-state loop a rejected frame ends the generator with the
\* decoder's ValueError, and no step of the steady-state loop clears the input
\* buffer, counts a retry or goes back to the priming loop.
C3_NoRecoveryAfterPriming ==
    [][Streaming =>
         /\ clears' = clears
         /\ retries' = retries
         /\ ~Priming'
         /\ (reads' = reads + 1 /\ outcome' = "rejected") =>
              /\ pc' = "Failed"
              /\ streamError' = "ValueError"
              /\ yielded' = yielded]_vars

C3_Witness ==
    /\ pc = "Failed"
    /\ streamError = "ValueError"
    /\ outcome = "rejected"
    /\ primeReads > 0
    /\ Len(frames) = 1
    /\ clears = primeReads

\* C8: an error of the serial device in the priming loop, at the clear or at
\* the read, ends the generator at once with that error: no clear or read
\* follows and no retry is counted.  Only a rejected frame counts a retry and
\* goes round the loop.
C8_TransportErrorAbortsPriming ==
    /\ outcome = "error" => pc = "Failed" /\ streamError = "SerialException"
    /\ (outcome = "error" /\ primeReads = 0) =>
         /\ clears = retries + 1
         /\ reads = retries + (IF lastIo = "read" THEN 1 ELSE 0)
    /\ (outcome = "rejected" /\ primeReads = 0) =>
         /\ reads = retries
         /\ clears = retries
         /\ pc \in {"PrimeLoop", "Failed"}
         /\ pc = "Failed" => streamError = "TimeoutError"

C8_Witness ==
    /\ pc = "Failed"
    /\ streamError = "SerialException"
    /\ outcome = "error"
    /\ lastIo = "read"
    /\ retries = 1
    /\ reads = 2
    /\ clears = 2

\* C9: the readings yielded are, in order, exactly those decoded readings
\* whose type was in the filter when the for loop reached them; the for loop
\* reaches the decoded readings in order, frame after frame, skipping none.
C9_FilteredOutput ==
    LET all == Flatten(frames)
        n == Len(considered)
        IsEnabled(c) == c.enabled
        passing == SelectSeq(considered, IsEnabled)
    IN  /\ Len(yielded) = Len(passing)
        /\ \A i \in 1..Len(passing) : yielded[i] = passing[i].kind
        /\ n <= Len(all)
        /\ \A i \in 1..n : considered[i].kind = all[i]
        /\ pc \in {"Read", "Failed"} => n = Len(all)
        /\ pc = "Consider" => n < Len(all)
        /\ pc = "Yielded" => n >= 1 /\ considered[n].enabled

C9_Witness ==
    /\ Len(frames) = 2
    /\ Len(considered) = 3
    /\ considered[1].enabled
    /\ ~considered[2].enabled
    /\ considered[3].enabled
    /\ yielded = <<considered[1].kind, considered[3].kind>>
    /\ considered[1].kind # considered[3].kind

\* C10: a frame that decodes to no reading never ends the generator: in the
\* priming loop it ends the priming like any decoded frame, in the
\* steady-state loop the generator goes on to the next read.  The generator
\* ends only on a device error or a rejected frame.
C10_EmptyFramesHarmless ==
    /\ outcome = "empty" =>
         /\ pc = "Read"
         /\ streamError = "None"
         /\ primeReads > 0
         /\ readings = <<>>
    /\ pc = "Failed" => outcome \in {"error", "rejected"}
    /\ \A i \in 1..Len(frames) :
         frames[i] = <<>> => \/ i < Len(frames)
                             \/ pc = "Read"
                             \/ pc = "Failed" /\ outcome # "empty"

C10_Witness ==
    /\ frames = << <<>>, <<"Acc">> >>
    /\ yielded = <<"Acc">>
    /\ pc = "Yielded"

\* C14: a generator that an exception has ended (TimeoutError of the
\* priming, ValueError of the decoder, or the device's error) yields nothing
\* more and reads nothing more, whatever is asked of it.  Readings come again
\* only from a new stream() generator, which starts in the priming loop with
\* its counters at zero; and no generator yields a reading before its priming
\* has cleared the input buffer and accepted a frame.
C14_NonRestartable ==
    /\ [](yielded # <<>> => (clears >= 1 /\ primeReads >= 1 /\ clears = primeReads))
    /\ [][pc = "Failed" =>
            \/ /\ pc' = "Failed"
               /\ yielded' = yielded
               /\ considered' = considered
               /\ reads' = reads
               /\ clears' = clears
               /\ streamError' = streamError
            \/ /\ pc' = "PrimeLoop"
               /\ yielded' = <<>>
               /\ retries' = 0
               /\ clears' = 0
               /\ reads' = 0
               /\ streamError' = "None"]_vars

\* next() was called on a generator that had yielded a reading and then
\* ended with the decoder's error
C14_Witness ==
    /\ pc = "Failed"
    /\ streamError = "ValueError"
    /\ raised = "StopIteration"
    /\ yielded # <<>>
    /\ clears = primeReads

\* C18: the filter is tested once for each reading, when the for loop
\* reaches it, against the filter as it is then: the reading is yielded
\* exactly when its type is in the filter at that moment.  A filter call made
\* while the generator is suspended at a yield leaves the decoded frame and
\* the position in it alone, and the resumed generator goes on with the next
\* reading of the same frame; none of these steps reads from the device.
C18_FilterAppliesMidFrame ==
    [][/\ pc = "Consider" =>
            /\ reads' = reads
            /\ frames' = frames
            /\ considered' =
                   Append(considered,
                          [kind |-> readings[idx],
                           enabled |-> readings[idx] \in measurement_filter])
            /\ readings[idx] \in measurement_filter
                   => (yielded' = Append(yielded, readings[idx]) /\ pc' = "Yielded")
            /\ readings[idx] \notin measurement_filter
                   => (yielded' = yielded /\ pc' # "Yielded")
       /\ (pc = "Yielded" /\ pc' = "Yielded") =>
            /\ readings' = readings
            /\ idx' = idx
            /\ reads' = reads
            /\ yielded' = yielded
       /\ (pc = "Yielded" /\ pc' # "Yielded") =>
            /\ reads' = reads
            /\ measurement_filter' = measurement_filter
            /\ IF idx < Len(readings)
               THEN pc' = "Consider" /\ readings' = readings /\ idx' = idx + 1
               ELSE pc' = "Read"]_vars

\* of a frame with two Acc readings the first was yielded and, Acc having
\* been disabled at the yield, the second was dropped; one frame was read
C18_Witness ==
    /\ frames = << <<"Acc", "Acc">> >>
    /\ Len(considered) = 2
    /\ considered[1].enabled
    /\ ~considered[2].enabled
    /\ yielded = <<"Acc">>
    /\ reads = primeReads + 1

\* C19: the readings of the frame whose decoding ends the priming are
\* dropped: when the priming has just succeeded after N reads the generator
\* holds no reading and has considered and yielded none, and every reading
\* it considers or yields later is one of a frame read after the priming, so
\* the first reading comes after N + 1 reads at the least.
C19_PrimingFrameDiscarded ==
    /\ (primeReads >= 1 /\ reads = primeReads) =>
          /\ pc = "Read"
          /\ readings = <<>>
          /\ frames = <<>>
          /\ considered = <<>>
          /\ yielded = <<>>
    /\ (considered # <<>> \/ yielded # <<>> \/ readings # <<>>) =>
          /\ primeReads >= 1
          /\ reads >= primeReads + 1
          /\ frames # <<>>
    /\ Len(frames) <= reads - primeReads
    /\ Len(considered) <= Len(Flatten(frames))
    /\ \A i \in 1..Len(considered) : considered[i].kind = Flatten(frames)[i]

\* the priming ended at its first read with a frame that held readings,
\* and the generator holds none of them
C19_Witness ==
    /\ outcome = "decoded"
    /\ primeReads = 1
    /\ reads = primeReads
    /\ pc = "Read"
    /\ readings = <<>>
    /\ yielded = <<>>

(***************************************************************************)
(* Properties of enable_readings and disable_readings                      *)
(***************************************************************************)
\* the last two calls were disable_readings(K), without an exception, and
\* enable_readings(K)
RoundTrip ==
    /\ lastCall.prior.op = "disable"
    /\ lastCall.prior.raised = "None"
    /\ Len(lastCall.prior.reading_types) = 1
    /\ lastCall.last.op = "enable"
    /\ lastCall.last.reading_types = lastCall.prior.reading_types

\* C11: disable_readings(K) for a type K in the filter, followed by
\* enable_readings(K), leaves the filter as it was before the disable; a
\* reading of type K then passes the filter and a reading of a type that was
\* not in the filter before does not.
C11_DisableEnableRoundTrip ==
    RoundTrip =>
        LET K == lastCall.prior.reading_types[1] IN
        /\ K \in lastCall.prior.before
        /\ lastCall.last.before = lastCall.prior.before \ {K}
        /\ measurement_filter = lastCall.prior.before
        /\ Passes(K, measurement_filter)
        /\ \A r \in ImuReading :
               r \notin lastCall.prior.before => ~Passes(r, measurement_filter)

\* Acc was disabled and enabled again while Mag stays disabled
C11_Witness ==
    /\ RoundTrip
    /\ lastCall.prior.reading_types = <<"Acc">>
    /\ "Acc" \in measurement_filter
    /\ "Mag" \notin measurement_filter

\* C12: disable_readings whose first type is not in the filter raises KeyError
\* and leaves the filter as it was; in particular the second of two
\* disable_readings(K) calls in a row raises KeyError.
C12_StrictRemoval ==
    /\ (/\ lastCall.last.op = "disable"
        /\ lastCall.last.reading_types # <<>>
        /\ Head(lastCall.last.reading_types) \notin lastCall.last.before)
       => /\ lastCall.last.raised = "KeyError"
          /\ raised = "KeyError"
          /\ measurement_filter = lastCall.last.before
    /\ (/\ lastCall.last.op = "disable"
        /\ lastCall.prior.op = "disable"
        /\ lastCall.prior.raised = "None"
        /\ Len(lastCall.prior.reading_types) = 1
        /\ lastCall.last.reading_types = lastCall.prior.reading_types)
       => lastCall.last.raised = "KeyError"

\* Gyro disabled twice in a row: the second call raised
C12_Witness ==
    /\ lastCall.prior.op = "disable"
    /\ lastCall.prior.raised = "None"
    /\ lastCall.prior.reading_types = <<"Gyro">>
    /\ lastCall.last.op = "disable"
    /\ lastCall.last.reading_types = <<"Gyro">>
    /\ raised = "KeyError"

\* C15, as the specification states it: whatever the arguments of the enable
\* and disable calls, the filter is a subset of {Acc, Gyro, Mag}.
C15_ClosedKindSet == measurement_filter \subseteq ImuReading

\* C15, amended: the filter of a new ImuStream is exactly {Acc, Gyro, Mag};
\* enable_readings adds every argument it is given, the three reading types
\* or not, and disable_readings only removes, so the filter leaves
\* {Acc, Gyro, Mag} exactly when enable_readings is given another object.
C15_EnabledSetBound ==
    /\ measurement_filter = ImuReading
    /\ [][IF lastCall'.last.op = "enable"
          THEN /\ Range(lastCall'.last.reading_types) \subseteq measurement_filter'
               /\ measurement_filter' \subseteq
                      measurement_filter \cup Range(lastCall'.last.reading_types)
               /\ (/\ measurement_filter \subseteq ImuReading
                   /\ Range(lastCall'.last.reading_types) \subseteq ImuReading)
                  => measurement_filter' \subseteq ImuReading
          ELSE measurement_filter' \subseteq measurement_filter]_vars

\* enable_readings was given an object that is no reading type and kept it
C15_Witness ==
    /\ lastCall.last.op = "enable"
    /\ "Other" \in Range(lastCall.last.reading_types)
    /\ "Other" \notin lastCall.last.before
    /\ "Other" \in measurement_filter

\* C16: enable_readings never raises and leaves the filter as the union of
\* the filter it found and its arguments, repeated arguments included; a
\* second enable_readings with the same arguments changes nothing, and
\* enabling types that are all in the filter leaves it as it was.
C16_EnableIdempotentUnion ==
    lastCall.last.op = "enable" =>
        /\ lastCall.last.raised = "None"
        /\ raised = "None"
        /\ measurement_filter =
               lastCall.last.before \cup Range(lastCall.last.reading_types)
        /\ AddAll(measurement_filter, lastCall.last.reading_types)
               = measurement_filter
        /\ Range(lastCall.last.reading_types) \subseteq lastCall.last.before
               => measurement_filter = lastCall.last.before

\* a disabled Acc was enabled by a call that names it twice
C16_Witness ==
    /\ lastCall.last.op = "enable"
    /\ lastCall.last.reading_types = <<"Acc", "Acc">>
    /\ "Acc" \notin lastCall.last.before
    /\ "Acc" \in measurement_filter

\* the index of the argument at which disable_readings raises
FirstBad(call) ==
    CHOOSE i \in 1..Len(call.reading_types) :
        /\ call.reading_types[i] \notin call.before \ Before(call.reading_types, i)
        /\ \A k \in 1..(i - 1) :
               call.reading_types[k] \in call.before \ Before(call.reading_types, k)

\* C17: disable_readings removes its arguments in order.  When it raises
\* KeyError at the first argument that is not in the filter -- an argument
\* repeated in the call included -- the arguments before it stay removed and
\* those after it are left as they were.
C17_DisableNotAtomic ==
    (lastCall.last.op = "disable" /\ lastCall.last.raised = "KeyError") =>
        LET call == lastCall.last
            i == FirstBad(call)
        IN  /\ \E k \in 1..Len(call.reading_types) :
                   call.reading_types[k] \notin
                       call.before \ Before(call.reading_types, k)
            /\ measurement_filter = call.before \ Before(call.reading_types, i)
            /\ \A k \in 1..(i - 1) : call.reading_types[k] \notin measurement_filter
            /\ \A k \in (i + 1)..Len(call.reading_types) :
                   call.reading_types[k] \notin Before(call.reading_types, i)
                   => (call.reading_types[k] \in measurement_filter
                         <=> call.reading_types[k] \in call.before)

\* disable_readings(Acc, Acc) raised at the second Acc and left Acc removed
C17_Witness ==
    /\ lastCall.last.op = "disable"
    /\ lastCall.last.raised = "KeyError"
    /\ lastCall.last.reading_types = <<"Acc", "Acc">>
    /\ measurement_filter = lastCall.last.before \ {"Acc"}
    /\ measurement_filter # lastCall.last.before

(***************************************************************************)
(* Motor and PwmControl                                                    *)
(***************************************************************************)
\* motor IDs a caller tries: the four channels and two strings that are none
MotorArgs == {"A", "B", "C", "D", "E", "a"}

\* percentages a caller tries: -1, 0, 100, 101, -0.1, 37.5, 100.1
ThrottleArgs ==
    {Pct(FALSE, -10), Pct(FALSE, 0), Pct(FALSE, 1000), Pct(FALSE, 1010),
     Pct(TRUE, -1), Pct(TRUE, 375), Pct(TRUE, 1001)}

\* the ASCII code of a one-character string
Ord(c) ==
    CASE c = "A" -> 65
      [] c = "B" -> 66
      [] c = "C" -> 67
      [] c = "D" -> 68
      [] c = "E" -> 69
      [] c = "a" -> 97

RECURSIVE Digits(_)
\* the decimal digits of a natural number, as ASCII codes
Digits(n) ==
    IF n < 10 THEN <<48 + n>> ELSE Digits(n \div 10) \o <<48 + (n % 10)>>

\* pwm_control.py:30, the {pct} of the f-string: str() of an int or of a float
FormatPct(pct) ==
    LET a == IF pct.tenths < 0 THEN -pct.tenths ELSE pct.tenths
        sign == IF pct.tenths < 0 THEN <<45>> ELSE <<>>
    IN  IF pct.float
        THEN sign \o Digits(a \div 10) \o <<46, 48 + (a % 10)>>
        ELSE sign \o Digits(a \div 10)

\* _encode ending the command with a line feed
_encode_newline(motor_id, pct) == <<Ord(motor_id), 46>> \o FormatPct(pct) \o <<10>>

\* pwm_control.py:29-30
_encode(motor_id, pct) == <<Ord(motor_id), 46>> \o FormatPct(pct) \o <<13>>

\* serial.write(data): the call is made, and returns or raises
SerialWrite(data) ==
    /\ Len(written) < MaxWrites
    /\ written' = Append(written, data)
    /\ raised' \in {"None", "SerialException"}

Called(op, motor_id, pct) ==
    lastCmd' = [op |-> op, motor_id |-> motor_id, pct |-> pct,
                before |-> written, killed |-> killed]

\* ValidThrottle without the lower bound
ValidThrottle_NoLower(pct) == pct.tenths <= 1000

\* pwm_control.py:41
ValidThrottle(pct) == 0 <= pct.tenths /\ pct.tenths <= 1000

\* set_throttle refusing to send once kill() has been called
set_throttle_poisoned(pct) ==
    /\ motor \in {"A", "B", "C", "D"}
    /\ Called("set_throttle", motor, pct)
    /\ IF killed
       THEN /\ raised' = "PoisonedAfterKill"
            /\ UNCHANGED written
       ELSE IF ValidThrottle(pct)
            THEN SerialWrite(_encode(motor, pct))
            ELSE /\ raised' = "ValueError"
                 /\ UNCHANGED written
    /\ UNCHANGED <<motor, killed>>
    /\ UNCHANGED imuVars

\* pwm_control.py:32-45, on the Motor the caller holds
set_throttle(pct) ==
    /\ motor \in {"A", "B", "C", "D"}
    /\ Called("set_throttle", motor, pct)
    /\ IF ValidThrottle(pct)
       THEN SerialWrite(_encode(motor, pct))
       ELSE /\ raised' = "ValueError"
            /\ UNCHANGED written
    /\ UNCHANGED <<motor, killed>>
    /\ UNCHANGED imuVars

\* a motor() that hands out a Motor for every identifier
GetMotor_AnyId(motor_id) ==
    /\ Called("motor", motor_id, NoPct)
    /\ motor' = motor_id
    /\ raised' = "None"
    /\ UNCHANGED <<written, killed>>
    /\ UNCHANGED imuVars

\* pwm_control.py:54-61; the caller keeps what it returns
GetMotor(motor_id) ==
    /\ Called("motor", motor_id, NoPct)
    /\ motor' = IF motor_id \in {"A", "B", "C", "D"} THEN motor_id ELSE "None"
    /\ raised' = "None"
    /\ UNCHANGED <<written, killed>>
    /\ UNCHANGED imuVars

\* pwm_control.py:63-69
reset ==
    /\ Called("reset", "", NoPct)
    /\ SerialWrite(<<32>>)
    /\ UNCHANGED <<motor, killed>>
    /\ UNCHANGED imuVars

\* kill sending a forward slash
kill_slash ==
    /\ Called("kill", "", NoPct)
    /\ SerialWrite(<<47>>)
    /\ killed' = TRUE
    /\ UNCHANGED motor
    /\ UNCHANGED imuVars

\* pwm_control.py:71-78
kill ==
    /\ Called("kill", "", NoPct)
    /\ SerialWrite(<<92>>)
    /\ killed' = TRUE
    /\ UNCHANGED motor
    /\ UNCHANGED imuVars

ThrottleCall == \E pct \in ThrottleArgs : set_throttle(pct)
MotorCall == \E motor_id \in MotorArgs : GetMotor(motor_id)

NextPwm ==
    \/ MotorCall
    \/ ThrottleCall
    \/ reset
    \/ kill

SpecPwm == Init /\ [][NextPwm]_vars

(***************************************************************************)
(* pypwm_control.open: one serial device under the ImuStream and the       *)
(* PwmControl, both driven by the thread that iterates the stream.  That   *)
(* thread runs its own code only while the generator is suspended.         *)
(***************************************************************************)
MaxSharedWrites == 1

SharedMotor ==
    /\ Suspended
    /\ motor = "Unset"
    /\ GetMotor("A")

SharedThrottle ==
    /\ Suspended
    /\ Len(written) < MaxSharedWrites
    /\ set_throttle(Pct(TRUE, 375))

\* reset() called from a second thread, whatever the generator is doing
SharedReset_OtherThread ==
    /\ Len(written) < MaxSharedWrites
    /\ reset

SharedReset ==
    /\ Suspended
    /\ Len(written) < MaxSharedWrites
    /\ reset

SharedKill ==
    /\ Suspended
    /\ Len(written) < MaxSharedWrites
    /\ kill

NextShared ==
    \/ StartStream
    \/ PrimeClear
    \/ PrimeTimeout
    \/ EnterRead
    \/ PrimeRead
    \/ StreamRead
    \/ Consider
    \/ Resume
    \/ SharedMotor
    \/ SharedThrottle
    \/ SharedReset
    \/ SharedKill

SpecShared == Init /\ [][NextShared]_vars

(***************************************************************************)
(* Properties of the command encoder                                       *)
(***************************************************************************)
IsDigits(s) == s # <<>> /\ \A i \in 1..Len(s) : s[i] \in 48..57

RECURSIVE NatOf(_)
\* the number a string of ASCII digits denotes
NatOf(s) ==
    IF s = <<>> THEN 0 ELSE 10 * NatOf(SubSeq(s, 1, Len(s) - 1)) + (s[Len(s)] - 48)

\* ten times the number an unsigned decimal text with at most one decimal
\* denotes; -1 for any other text
DecimalTenths(s) ==
    IF IsDigits(s)
    THEN 10 * NatOf(s)
    ELSE IF /\ Len(s) >= 3
            /\ s[Len(s) - 1] = 46
            /\ IsDigits(SubSeq(s, 1, Len(s) - 2))
            /\ s[Len(s)] \in 48..57
         THEN 10 * NatOf(SubSeq(s, 1, Len(s) - 2)) + (s[Len(s)] - 48)
         ELSE -1

LastThrottle == lastCmd.op = "set_throttle"
InRange(pct) == pct.tenths >= 0 /\ pct.tenths <= 1000

\* C4, as the specification states it: once kill() has been called, every
\* set_throttle and reset fails with PoisonedAfterKill and writes nothing.
C4_PoisonedAfterKill ==
    (lastCmd.killed /\ lastCmd.op \in {"set_throttle", "reset"}) =>
        /\ raised = "PoisonedAfterKill"
        /\ written = lastCmd.before

\* C4, amended: kill() poisons nothing.  After it reset() still writes its
\* byte and set_throttle with a percentage in [0, 100] still writes its
\* command, one write each; no call ever fails with PoisonedAfterKill, and the
\* only call refused without a write is set_throttle with a percentage outside
\* [0, 100] (ValueError).
C4_NoPoisonAfterKill ==
    /\ raised # "PoisonedAfterKill"
    /\ (lastCmd.killed /\ lastCmd.op = "reset") =>
         written = Append(lastCmd.before, <<32>>)
    /\ (lastCmd.killed /\ LastThrottle /\ InRange(lastCmd.pct)) =>
         /\ written = Append(lastCmd.before, _encode(lastCmd.motor_id, lastCmd.pct))
         /\ raised \in {"None", "SerialException"}
    /\ (lastCmd.killed /\ LastThrottle /\ ~InRange(lastCmd.pct)) =>
         /\ written = lastCmd.before
         /\ raised = "ValueError"

C4_Witness ==
    /\ lastCmd.killed
    /\ LastThrottle
    /\ lastCmd.pct = Pct(FALSE, 1000)
    /\ raised = "None"
    /\ lastCmd.before = << <<92>> >>
    /\ Len(written) = 2

\* C5: set_throttle with a percentage below 0 or above 100 raises ValueError
\* and writes nothing: the bytes written so far are what they were.
C5_ThrottleRejection ==
    (LastThrottle /\ (lastCmd.pct.tenths < 0 \/ lastCmd.pct.tenths > 1000)) =>
        /\ raised = "ValueError"
        /\ written = lastCmd.before

C5_Witness ==
    /\ LastThrottle
    /\ lastCmd.pct = Pct(TRUE, -1)
    /\ raised = "ValueError"
    /\ Len(written) = 1
    /\ written = lastCmd.before

C7_FixedOpcodes ==
    /\ lastCmd.op = "reset" => written = Append(lastCmd.before, <<32>>)
    /\ lastCmd.op = "kill" => written = Append(lastCmd.before, <<92>>)

C7_Witness ==
    /\ lastCmd.op = "kill"
    /\ lastCmd.before = << <<65, 46, 48, 13>>, <<32>> >>
    /\ written = << <<65, 46, 48, 13>>, <<32>>, <<92>> >>

\* C13: motor(id) returns a Motor bound to id exactly when id is A, B, C or D
\* and None for every other string; it never raises and writes nothing; and
\* every throttle command written through a Motor it returned starts with
\* the byte of A, B, C or D followed by '.'.
C13_MotorAcquisition ==
    /\ lastCmd.op = "motor" =>
          /\ raised = "None"
          /\ written = lastCmd.before
          /\ lastCmd.motor_id \in {"A", "B", "C", "D"} => motor = lastCmd.motor_id
          /\ lastCmd.motor_id \notin {"A", "B", "C", "D"} => motor = "None"
    /\ \A i \in 1..Len(written) :
          Len(written[i]) > 1 =>
              /\ written[i][1] \in {Ord("A"), Ord("B"), Ord("C"), Ord("D")}
              /\ written[i][2] = 46

\* motor("E") returned None after a throttle command had been written for C
C13_Witness ==
    /\ lastCmd.op = "motor"
    /\ lastCmd.motor_id = "E"
    /\ motor = "None"
    /\ written # <<>>
    /\ Len(written[1]) > 1
    /\ written[1][1] = Ord("C")
    /\ written = lastCmd.before

\* C20: with one device under the ImuStream and the PwmControl and one
\* thread driving both, the generator is never suspended inside read_until:
\* it hands control back only at a yield or when it has ended.  So no
\* set_throttle, reset or kill writes to the device while a read_until is in
\* progress, whichever way next() calls and commands are interleaved.
C20_NoWriteInsideScan ==
    /\ [](Suspended => ~scanning)
    /\ [](scanning => pc \in {"PrimeRead", "Read"})
    /\ [][written' # written => (Suspended /\ ~scanning /\ ~scanning')]_vars

\* a command was written after the first reading was yielded, and the
\* generator is now inside the next read_until
C20_Witness ==
    /\ written # <<>>
    /\ lastCmd.op \in {"set_throttle", "reset", "kill"}
    /\ Len(yielded) >= 1
    /\ pc = "Read"
    /\ scanning

====
